---- MODULE Spec2Model ----
(***************************************************************************)
(* A model of mpdecimate_trim.py: a linear script that runs ffmpeg with    *)
(* the mpdecimate filter, parses its debug log into keep intervals,        *)
(* writes an ffconcat playlist of them and transcodes that playlist.       *)
(***************************************************************************)
EXTENDS Integers, Sequences, FiniteSets, TLC

\* ------------------------------------------------------------------ bounds
\* Longest decimate log (in lines) the whole-script specification produces.
MaxLines == 3
\* Longest decimate log (in lines) the write_filter specification reads.
MaxLog == 4
\* Largest value of --skip.
MaxSkip == 2

\* --------------------------------------------------------- program constants
\* sys.exit(3) in ffmpeg()
EXIT_TOOL == 3
\* sys.exit(2) in write_filter()
EXIT_SKIP == 2
\* argparse's parse_args() ends the process with status 2 on a usage error
EXIT_USAGE == 2
\* the interpreter's status for an uncaught exception
EXIT_EXCEPTION == 1
\* sys.exit(0) under --debug, and the status of a script that runs to its end
EXIT_OK == 0

\* Python's None where the other values are strings (an interval's end).
None == "None"

\* ------------------------------------------------------------- log lines
\* A log line is a sequence of tokens [k |-> kind, v |-> text]. The kinds are
\* the pieces the three regular expressions tell apart:
\*   verdict     " keep" or " drop" (any other word is kind "text")
\*   pts         " pts:" followed by v
\*   pts_time    " pts_time:" followed by v
\*   drop_count  " drop_count:" followed by v
\*   keep_count  " keep_count:" followed by v
\*   bracket     "[...]"
\*   space       white space
\*   in_stream   "Input stream #d:d (" v "): d packets read (d bytes); d frames decoded (d samples);"
\*   out_stream  "Output stream #d:d (" v "): d frames encoded (d samples); d packets muxed (d bytes);"
\*   text        anything else
Tok(k, v) == [k |-> k, v |-> v]

\* Strings of the class \d+
DigitStrings == {"0", "2", "3", "512", "1024"}
\* Strings of the class -?\d+
SignedStrings == DigitStrings \cup {"-1", "-3"}
\* Strings of the class \d+(?:\.\d+)?
DecimalStrings == DigitStrings \cup {"0.5", "1.25", "4.75"}

Prefix == Tok("bracket", "[Parsed_mpdecimate_0 @ 0x55d0]")

\* keep, with keep_count, at 0.5
LineKeepA == <<Prefix, Tok("verdict", "keep"), Tok("pts", "512"), Tok("pts_time", "0.5"),
               Tok("drop_count", "-1"), Tok("keep_count", "2")>>
\* keep, without keep_count, at 2
LineKeepB == <<Prefix, Tok("verdict", "keep"), Tok("pts", "1024"), Tok("pts_time", "2"),
               Tok("drop_count", "-3")>>
\* drop at 1.25
LineDropA == <<Prefix, Tok("verdict", "drop"), Tok("pts", "1024"), Tok("pts_time", "1.25"),
               Tok("drop_count", "2")>>
\* drop at 4.75, without any prefix and after the word keep
LineDropB == <<Tok("verdict", "keep"), Tok("verdict", "drop"), Tok("pts", "3"),
               Tok("pts_time", "4.75"), Tok("drop_count", "3"), Tok("keep_count", "-1")>>
\* a keep line with a negative time stamp: not matched by re_decimate
LineKeepNeg == <<Prefix, Tok("verdict", "keep"), Tok("pts", "0"), Tok("pts_time", "-0.5"),
                 Tok("drop_count", "-1")>>
\* the summary of an input audio stream
LineAudioIn == <<Prefix, Tok("space", " "), Tok("in_stream", "audio"), Tok("space", " ")>>
\* the summary of an output audio stream
LineAudioOut == <<Tok("out_stream", "audio")>>
\* the summary of an input video stream
LineVideoIn == <<Tok("space", " "), Tok("in_stream", "video")>>

LogLines == {LineKeepA, LineKeepB, LineDropA, LineDropB, LineKeepNeg,
             LineAudioIn, LineAudioOut, LineVideoIn}

\* The lines of the logs of the whole-script specification.
ScriptLines == {LineKeepA, LineKeepB, LineDropA}

LogsOf(lines, n) == UNION {[1..m -> lines] : m \in 0..n}

\* ------------------------------------------------------ regular expressions
\* re_decimate.findall(line): <<>> when the line does not match, else
\* <<values[0]>> with values[0] = <<keep|drop, pts_time>>. The pattern is
\* anchored at the end of the line and starts with ".*", so the last four
\* (or, with keep_count, five) tokens decide.
re_decimate(line) ==
    LET n == Len(line)
        kc == n >= 1 /\ line[n].k = "keep_count"
        m == IF kc THEN n - 1 ELSE n
    IN IF /\ m >= 4
          /\ (kc => line[n].v \in SignedStrings)
          /\ line[m].k = "drop_count" /\ line[m].v \in SignedStrings
          /\ line[m - 1].k = "pts_time" /\ line[m - 1].v \in DecimalStrings
          /\ line[m - 2].k = "pts" /\ line[m - 2].v \in DigitStrings
          /\ line[m - 3].k = "verdict" /\ line[m - 3].v \in {"keep", "drop"}
       THEN <<(<<line[m - 3].v, line[m - 1].v>>)>>
       ELSE <<>>

NotSpace(t) == t.k # "space"

\* The part both audio patterns share: an optional "[...]", white space, the
\* summary of an audio stream, white space, and nothing else (fullmatch).
audio_fullmatch(line, kind) ==
    LET rest == IF Len(line) >= 1 /\ line[1].k = "bracket" THEN Tail(line) ELSE line
    IN SelectSeq(rest, NotSpace) = <<Tok(kind, "audio")>>

re_audio_in(line) == audio_fullmatch(line, "in_stream")

re_audio_out(line) == audio_fullmatch(line, "out_stream")


\* ------------------------------------------------------- get_frames_to_keep
\* The loop's variables as a record.
ParseStart == [to_keep |-> <<>>, dropping |-> TRUE,
               has_audio_in |-> FALSE, has_audio_out |-> FALSE]

\* A slip: every keep line starts an interval.
starts_interval_any_keep(keep, drop) == keep

\* "if keep and dropping"
starts_interval(keep, drop) == keep /\ drop

\* "elif not keep and not dropping"
ends_interval(keep, drop) == ~keep /\ ~drop

\* "to_keep.append([pts_time, None]); dropping = False"
open_interval(st, pts_time) ==
    [st EXCEPT !.to_keep = Append(@, <<pts_time, None>>), !.dropping = FALSE]

\* A slip: the end is stored and dropping is left False.
close_interval_stays_open(st, pts_time) ==
    [st EXCEPT !.to_keep[Len(st.to_keep)][2] = pts_time]

\* "to_keep[-1][1] = pts_time; dropping = True"
close_interval(st, pts_time) ==
    [st EXCEPT !.to_keep[Len(st.to_keep)][2] = pts_time, !.dropping = TRUE]

\* A slip: the flag is overwritten by the last line's match.
audio_flag_last_line(seen, matched) == matched

\* "has_audio_in = has_audio_in or re_audio_in.fullmatch(line)", as a truth value
audio_flag(seen, matched) == seen \/ matched

\* "bool(has_audio_in and has_audio_out)"
has_audio_result(ain, aout) == ain /\ aout

\* One iteration of "for line in mpdecimate".
parse_line(st, line) ==
    LET values == re_decimate(line)
    IN IF values = <<>>
       THEN [st EXCEPT !.has_audio_in = audio_flag(@, re_audio_in(line)),
                       !.has_audio_out = audio_flag(@, re_audio_out(line))]
       ELSE LET keep == values[1][1] = "keep"
                pts_time == values[1][2]
            IN IF starts_interval(keep, st.dropping) THEN open_interval(st, pts_time)
               ELSE IF ends_interval(keep, st.dropping) THEN close_interval(st, pts_time)
               ELSE st

\* ------------------------------------------------------------ command line
cwd == <<"/", "home">>

tempdir_path == <<"/", "tmp", "mpdecimate_trim.k3x">>

FilePaths == {<<"clip.mkv">>, <<"/", "videos", "clip.mkv">>}

VaapiDevice == "/dev/dri/renderD128"

\* --skip: <<>> when not given, else <<n>>
Skips == {<<>>} \cup {<<n>> : n \in 0..MaxSkip}

\* The namespace parse_args() returns (the options that only change ffmpeg's
\* arguments of the transcode are left out).
Configs == [keep : BOOLEAN, skip : Skips, debug : BOOLEAN,
            vaapi : {None, VaapiDevice},
            vaapi_decimate : {None, "True", VaapiDevice},
            videotoolbox_decimate : BOOLEAN,
            filepath : FilePaths]

\* The options' defaults.
Defaults(fp) == [keep |-> FALSE, skip |-> <<>>, debug |-> FALSE, vaapi |-> None,
                 vaapi_decimate |-> None, videotoolbox_decimate |-> FALSE,
                 filepath |-> fp]

_vaapi_args == <<"-hwaccel", "vaapi", "-hwaccel_device">>

Raised == <<"raise Exception">>

\* hwargs_decimate(): the arguments, or Raised
hwargs_decimate(c) ==
    IF c.videotoolbox_decimate THEN <<"-hwaccel", "videotoolbox">>
    ELSE IF c.vaapi_decimate = None THEN <<>>
    ELSE IF c.vaapi_decimate = "True"
         THEN IF c.vaapi = None THEN Raised ELSE _vaapi_args \o <<c.vaapi>>
         ELSE _vaapi_args \o <<c.vaapi_decimate>>

\* os.path.abspath
abspath(p) == IF p[1] = "/" THEN p ELSE cwd \o p

\* ------------------------------------------------------------------ ffmpeg()
\* The exit codes subprocess.run may report (negative: killed by a signal).
ReturnCodes == {0, 1, 2, 255, -9}

\* A slip: the return code is not looked at.
ffmpeg_exit_never(rc) == <<>>

\* A slip: the script exits with the tool's own code.
ffmpeg_exit_tool_code(rc) == IF rc = 0 THEN <<>> ELSE <<rc>>

\* What ffmpeg() does with run()'s return code: <<>> when it returns,
\* <<code>> when it calls sys.exit(code).
ffmpeg_exit(rc) == IF rc = 0 THEN <<>> ELSE <<EXIT_TOOL>>

\* ------------------------------------------------------------ write_filter()
\* A slip: <= for <.
too_few_inclusive(skip, n) == skip # <<>> /\ skip[1] # 0 /\ n <= skip[1]

\* "if cargs.skip and len(frames_to_keep) < cargs.skip"
too_few(skip, n) == skip # <<>> /\ skip[1] # 0 /\ n < skip[1]

\* A line of the playlist: a directive and its argument.
PlLine(d, a) == [d |-> d, a |-> a]

Header == PlLine("ffconcat version 1.0", <<>>)

Blank == PlLine("", <<>>)

\* A slip: the path is written as given on the command line.
entry_lines_relative(iv, filepath) ==
    <<[d |-> "", a |-> <<>>], [d |-> "file", a |-> filepath], [d |-> "inpoint", a |-> <<iv[1]>>]>>
    \o (IF iv[2] # None THEN <<[d |-> "outpoint", a |-> <<iv[2]>>]>> ELSE <<>>)

\* The lines one iteration of "for i, (s, e) in enumerate(frames_to_keep)" writes.
entry_lines(iv, filepath) ==
    <<Blank, PlLine("file", abspath(filepath)), PlLine("inpoint", <<iv[1]>>)>>
    \o (IF iv[2] # None THEN <<PlLine("outpoint", <<iv[2]>>)>> ELSE <<>>)

\* ----------------------------------------------------------------- cleanup
\* A slip: --debug does not stop the cleanup.
debug_exit_never(c) == FALSE

\* "if cargs.debug: sys.exit(0)"
debug_exit(c) == c.debug

\* A slip: --keep is not looked at.
removes_original_always(c) == TRUE

\* "if not cargs.keep: os.remove(cargs.filepath)"
removes_original(c) == ~c.keep

\* -------------------------------------------------------------------- state
VARIABLES
    pc,             \* the statement the script is at; "done" once the process ended
    cargs,          \* the parsed command line
    exit,           \* <<>> while running, <<status>> once the process ended
    raisedAt,       \* "" or the call whose exception ended the process
    tempdir,        \* "absent", "present" or "removed"
    fileExists,     \* whether the original input file exists
    decimate_rc,    \* <<>> or <<return code of the decimate invocation>>
    transcode_rc,   \* <<>> or <<return code of the transcode invocation>>
    log,            \* the decimate invocation's captured stderr, as lines
    pos,            \* lines of the log get_frames_to_keep has read
    to_keep, dropping, has_audio_in, has_audio_out,   \* get_frames_to_keep's locals
    frames_to_keep, \* write_filter's frames_to_keep
    has_audio,      \* write_filter's has_audio
    filter,         \* the playlist file: "absent", "open" or "closed"
    playlist,       \* the lines written to the playlist file
    widx,           \* the next interval write_filter's loop writes
    transcode_input, \* the playlist as the transcode invocation got it
    trace           \* the pipeline steps, in the order they were started

vars == <<pc, cargs, exit, raisedAt, tempdir, fileExists, decimate_rc, transcode_rc,
          log, pos, to_keep, dropping, has_audio_in, has_audio_out, frames_to_keep,
          has_audio, filter, playlist, widx, transcode_input, trace>>

parseVars == <<to_keep, dropping, has_audio_in, has_audio_out>>

filterVars == <<filter, playlist, widx>>

envVars == <<tempdir, fileExists>>

runVars == <<decimate_rc, transcode_rc, log, transcode_input>>

\* The state in which the script starts, for an input file that exists.
Init ==
    /\ pc = "parse_args"
    /\ cargs \in {Defaults(<<>>)}
    /\ exit = <<>>
    /\ raisedAt = ""
    /\ tempdir = "absent"
    /\ fileExists = TRUE
    /\ decimate_rc = <<>>
    /\ transcode_rc = <<>>
    /\ log = <<>>
    /\ pos = 0
    /\ to_keep = <<>>
    /\ dropping = TRUE
    /\ has_audio_in = FALSE
    /\ has_audio_out = FALSE
    /\ frames_to_keep = <<>>
    /\ has_audio = FALSE
    /\ filter = "absent"
    /\ playlist = <<>>
    /\ widx = 1
    /\ transcode_input = <<>>
    /\ trace = <<>>

\* The process ends with an uncaught exception raised by the call `at`.
Raise(at) ==
    /\ pc' = "done"
    /\ exit' = <<EXIT_EXCEPTION>>
    /\ raisedAt' = at
    /\ UNCHANGED <<cargs, envVars, runVars, pos, parseVars, frames_to_keep, has_audio,
                   filterVars, trace>>

\* cargs = cargs.parse_args(): the namespace, or a usage error
ParseArgs ==
    /\ pc = "parse_args"
    /\ \/ /\ \E c \in Configs : cargs' = c
          /\ pc' = "mkdtemp"
          /\ UNCHANGED exit
       \/ /\ pc' = "done"
          /\ exit' = <<EXIT_USAGE>>
          /\ UNCHANGED cargs
    /\ UNCHANGED <<raisedAt, envVars, runVars, pos, parseVars, frames_to_keep, has_audio,
                   filterVars, trace>>

\* tempdir = mkdtemp(prefix="mpdecimate_trim.")
Mkdtemp ==
    /\ pc = "mkdtemp"
    /\ \/ Raise("mkdtemp")
       \/ /\ tempdir' = "present"
          /\ pc' = "decimate"
          /\ UNCHANGED <<cargs, exit, raisedAt, fileExists, runVars, pos, parseVars,
                         frames_to_keep, has_audio, filterVars, trace>>

\* mpdecimate_fn = ffmpeg(True, *hwargs_decimate(), ...)
Decimate ==
    /\ pc = "decimate"
    /\ IF hwargs_decimate(cargs) = Raised
       THEN Raise("hwargs_decimate")
       ELSE \/ Raise("run")
            \/ \E rc \in ReturnCodes, out \in LogsOf(ScriptLines, MaxLines) :
                 /\ decimate_rc' = <<rc>>
                 /\ log' = out
                 /\ trace' = Append(trace, "decimate")
                 /\ exit' = ffmpeg_exit(rc)
                 /\ pc' = IF ffmpeg_exit(rc) = <<>> THEN "open_log" ELSE "done"
                 /\ UNCHANGED <<cargs, raisedAt, envVars, transcode_rc, transcode_input,
                                pos, parseVars, frames_to_keep, has_audio, filterVars>>

\* write_filter() calls get_frames_to_keep(mpdecimate_fn), which sets its
\* locals and opens the log
OpenLog ==
    /\ pc = "open_log"
    /\ \/ Raise("open")
       \/ /\ to_keep' = ParseStart.to_keep
          /\ dropping' = ParseStart.dropping
          /\ has_audio_in' = ParseStart.has_audio_in
          /\ has_audio_out' = ParseStart.has_audio_out
          /\ pos' = 0
          /\ trace' = Append(trace, "parse")
          /\ pc' = "read"
          /\ UNCHANGED <<cargs, exit, raisedAt, envVars, runVars, frames_to_keep,
                         has_audio, filterVars>>

\* one iteration of "for line in mpdecimate"
ReadLine ==
    /\ pc = "read"
    /\ pos < Len(log)
    /\ LET st == parse_line([to_keep |-> to_keep, dropping |-> dropping,
                             has_audio_in |-> has_audio_in,
                             has_audio_out |-> has_audio_out], log[pos + 1])
       IN /\ to_keep' = st.to_keep
          /\ dropping' = st.dropping
          /\ has_audio_in' = st.has_audio_in
          /\ has_audio_out' = st.has_audio_out
    /\ pos' = pos + 1
    /\ UNCHANGED <<pc, cargs, exit, raisedAt, envVars, runVars, frames_to_keep,
                   has_audio, filterVars, trace>>

\* "return (to_keep, bool(has_audio_in and has_audio_out))" at the end of the log
Return ==
    /\ pc = "read"
    /\ pos = Len(log)
    /\ frames_to_keep' = to_keep
    /\ has_audio' = has_audio_result(has_audio_in, has_audio_out)
    /\ pc' = "skip_check"
    /\ UNCHANGED <<cargs, exit, raisedAt, envVars, runVars, pos, parseVars,
                   filterVars, trace>>

\* "if cargs.skip and len(frames_to_keep) < cargs.skip: sys.exit(2)"
SkipCheck ==
    /\ pc = "skip_check"
    /\ IF too_few(cargs.skip, Len(frames_to_keep))
       THEN pc' = "done" /\ exit' = <<EXIT_SKIP>>
       ELSE pc' = "open_filter" /\ UNCHANGED exit
    /\ UNCHANGED <<cargs, raisedAt, envVars, runVars, pos, parseVars, frames_to_keep,
                   has_audio, filterVars, trace>>

\* "with open(filter_fn, "w") as fg: fg.write("ffconcat version 1.0\n")"
OpenFilter ==
    /\ pc = "open_filter"
    /\ \/ Raise("open")
       \/ /\ filter' = "open"
          /\ playlist' = <<Header>>
          /\ widx' = 1
          /\ trace' = Append(trace, "playlist")
          /\ pc' = "write"
          /\ UNCHANGED <<cargs, exit, raisedAt, envVars, runVars, pos, parseVars,
                         frames_to_keep, has_audio>>

\* one iteration of "for i, (s, e) in enumerate(frames_to_keep)"
WriteEntry ==
    /\ pc = "write"
    /\ widx <= Len(frames_to_keep)
    /\ playlist' = playlist \o entry_lines(frames_to_keep[widx], cargs.filepath)
    /\ widx' = widx + 1
    /\ UNCHANGED <<pc, cargs, exit, raisedAt, envVars, runVars, pos, parseVars,
                   frames_to_keep, has_audio, filter, trace>>

\* "fg.flush()" and the end of the with block
CloseFilter ==
    /\ pc = "write"
    /\ widx > Len(frames_to_keep)
    /\ filter' = "closed"
    /\ pc' = "transcode"
    /\ UNCHANGED <<cargs, exit, raisedAt, envVars, runVars, pos, parseVars,
                   frames_to_keep, has_audio, playlist, widx, trace>>

\* ffmpeg(False, ..., "-i", filter_fn, ...)
Transcode ==
    /\ pc = "transcode"
    /\ \/ Raise("run")
       \/ \E rc \in ReturnCodes :
            /\ transcode_rc' = <<rc>>
            /\ transcode_input' = playlist
            /\ trace' = Append(trace, "transcode")
            /\ exit' = ffmpeg_exit(rc)
            /\ pc' = IF ffmpeg_exit(rc) = <<>> THEN "cleanup" ELSE "done"
            /\ UNCHANGED <<cargs, raisedAt, envVars, decimate_rc, log, pos, parseVars,
                           frames_to_keep, has_audio, filterVars>>

\* "if cargs.debug: sys.exit(0)" and "if not cargs.keep: os.remove(cargs.filepath)"
Cleanup ==
    /\ pc = "cleanup"
    /\ IF debug_exit(cargs)
       THEN /\ pc' = "done"
            /\ exit' = <<EXIT_OK>>
            /\ UNCHANGED <<cargs, raisedAt, envVars, runVars, pos, parseVars,
                           frames_to_keep, has_audio, filterVars, trace>>
       ELSE IF removes_original(cargs)
            THEN \/ Raise("os.remove")
                 \/ /\ fileExists' = FALSE
                    /\ pc' = "rmtree"
                    /\ UNCHANGED <<cargs, exit, raisedAt, tempdir, runVars, pos, parseVars,
                                   frames_to_keep, has_audio, filterVars, trace>>
            ELSE /\ pc' = "rmtree"
                 /\ UNCHANGED <<cargs, exit, raisedAt, envVars, runVars, pos, parseVars,
                                frames_to_keep, has_audio, filterVars, trace>>

\* "rmtree(tempdir)", the script's last statement
Rmtree ==
    /\ pc = "rmtree"
    /\ \/ Raise("rmtree")
       \/ /\ tempdir' = "removed"
          /\ filter' = "absent"
          /\ pc' = "done"
          /\ exit' = <<EXIT_OK>>
          /\ UNCHANGED <<cargs, raisedAt, fileExists, runVars, pos, parseVars,
                         frames_to_keep, has_audio, playlist, widx, trace>>

Next ==
    \/ ParseArgs
    \/ Mkdtemp
    \/ Decimate
    \/ OpenLog
    \/ ReadLine
    \/ Return
    \/ SkipCheck
    \/ OpenFilter
    \/ WriteEntry
    \/ CloseFilter
    \/ Transcode
    \/ Cleanup
    \/ Rmtree

\* The whole script.
Spec == Init /\ [][Next]_vars

\* ------------------------------------------- write_filter() on its own
\* The command lines that give the input file and leave the options alone.
FilterConfigs == {Defaults(fp) : fp \in FilePaths}

\* The state at the call of write_filter(): the decimate invocation returned
\* 0 and left some log.
InitFilter ==
    /\ pc = "open_log"
    /\ cargs \in FilterConfigs
    /\ exit = <<>>
    /\ raisedAt = ""
    /\ tempdir = "present"
    /\ fileExists = TRUE
    /\ decimate_rc = <<0>>
    /\ transcode_rc = <<>>
    /\ log \in LogsOf(LogLines, MaxLog)
    /\ pos = 0
    /\ to_keep = <<>>
    /\ dropping = TRUE
    /\ has_audio_in = FALSE
    /\ has_audio_out = FALSE
    /\ frames_to_keep = <<>>
    /\ has_audio = FALSE
    /\ filter = "absent"
    /\ playlist = <<>>
    /\ widx = 1
    /\ transcode_input = <<>>
    /\ trace = <<"decimate">>

NextFilter ==
    \/ OpenLog
    \/ ReadLine
    \/ Return
    \/ SkipCheck
    \/ OpenFilter
    \/ WriteEntry
    \/ CloseFilter

SpecFilter == InitFilter /\ [][NextFilter]_vars

\* ------------------------------------------------------------------ helpers
Range(f) == {f[i] : i \in DOMAIN f}

Last(s) == s[Len(s)]

Min(S) == CHOOSE x \in S : \A y \in S : x <= y

\* The k-th smallest element of a finite set of integers.
Nth(S, k) == CHOOSE x \in S : Cardinality({y \in S : y < x}) = k - 1

IsKeepDrop(line) == re_decimate(line) # <<>>

IsKeepLine(line) == IsKeepDrop(line) /\ re_decimate(line)[1][1] = "keep"

TimeOf(line) == re_decimate(line)[1][2]

\* The intervals of a log, said without the loop: one per maximal run of keep
\* lines among the keep/drop lines, from the run's first keep line to the
\* first drop line after it (None when no drop line follows).
Runs(lines) ==
    LET kd == SelectSeq(lines, IsKeepDrop)
        starts == {i \in 1..Len(kd) :
                     IsKeepLine(kd[i]) /\ (i = 1 \/ ~IsKeepLine(kd[i - 1]))}
        drops(i) == {j \in (i + 1)..Len(kd) : ~IsKeepLine(kd[j])}
        end(i) == IF drops(i) = {} THEN None ELSE TimeOf(kd[Min(drops(i))])
    IN [k \in 1..Cardinality(starts) |->
          <<TimeOf(kd[Nth(starts, k)]), end(Nth(starts, k))>>]

\* The log ends, as far as its keep/drop lines go, with a keep line.
EndsWithKeep(lines) ==
    LET kd == SelectSeq(lines, IsKeepDrop)
    IN kd # <<>> /\ IsKeepLine(Last(kd))

\* The lines get_frames_to_keep has read.
LinesRead == SubSeq(log, 1, pos)

\* get_frames_to_keep has been called and its loop variables are set.
Parsing == pc # "open_log" /\ "parse" \in Range(trace)

\* get_frames_to_keep has returned.
Parsed == Parsing /\ pc # "read"

\* write_filter's skip check has been made.
SkipChecked == Parsed /\ pc # "skip_check"

Pipeline == <<"decimate", "parse", "playlist", "transcode">>

\* ---------------------------------------------------------------------- C1
\* C1: the steps run in the order decimate, parse, playlist, transcode, none
\* twice: the log is parsed only after the decimate invocation returned 0,
\* the playlist is written only after get_frames_to_keep returned, and the
\* transcode invocation starts only after the playlist file was written to
\* its last entry and closed.
C1_FixedOrder ==
    /\ Len(trace) <= Len(Pipeline)
    /\ trace = SubSeq(Pipeline, 1, Len(trace))
    /\ "parse" \in Range(trace) => decimate_rc = <<0>>
    /\ "playlist" \in Range(trace) =>
          /\ pos = Len(log)
          /\ frames_to_keep = to_keep
          /\ pc \notin {"open_log", "read", "skip_check"}
    /\ "transcode" \in Range(trace) =>
          /\ widx = Len(frames_to_keep) + 1
          /\ Len(transcode_input) = 1 + 3 * Len(frames_to_keep)
                + Cardinality({i \in 1..Len(frames_to_keep) : frames_to_keep[i][2] # None})
          /\ transcode_input = playlist
          /\ pc \notin {"open_filter", "write"}

\* A run that went through all four steps with two intervals.
C1_Witness ==
    /\ pc = "done"
    /\ trace = Pipeline
    /\ Len(frames_to_keep) = 2

\* ---------------------------------------------------------------------- C2
\* C2: when the decimate or the transcode invocation returns a non-zero
\* code, the script ends with status 3 whatever that code was; after a failed
\* decimate nothing is parsed, no playlist is written and no transcode runs,
\* and in both cases the original input file is still there.
C2_ToolFailureAborts ==
    /\ (decimate_rc # <<>> /\ decimate_rc # <<0>>) =>
          /\ pc = "done"
          /\ exit = <<EXIT_TOOL>>
          /\ trace = <<"decimate">>
          /\ pos = 0
          /\ filter = "absent"
          /\ playlist = <<>>
          /\ transcode_rc = <<>>
          /\ fileExists
    /\ (transcode_rc # <<>> /\ transcode_rc # <<0>>) =>
          /\ pc = "done"
          /\ exit = <<EXIT_TOOL>>
          /\ fileExists
          /\ tempdir = "present"

\* The transcode invocation was killed by a signal, without --keep or --debug.
C2_Witness ==
    /\ transcode_rc = <<-9>>
    /\ ~cargs.keep
    /\ ~cargs.debug
    /\ pc = "done"

\* ---------------------------------------------------------------------- C3
\* The script stopped in parse_args(), before anything else ran.
UsageError == pc = "done" /\ tempdir = "absent" /\ trace = <<>> /\ raisedAt = ""

\* The skip check found fewer intervals than --skip asks for.
TooFew == SkipChecked /\ cargs.skip # <<>> /\ Len(frames_to_keep) < cargs.skip[1]

\* C3 as stated: with fewer intervals than --skip the script ends with status
\* 2, not 3, before the playlist is written, without a transcode and with the
\* original in place, and it ends with status 2 in no other situation.
C3_ExitTwoOnlyTooFew ==
    /\ TooFew =>
          /\ pc = "done"
          /\ exit = <<EXIT_SKIP>>
          /\ exit # <<EXIT_TOOL>>
          /\ filter = "absent"
          /\ playlist = <<>>
          /\ trace = <<"decimate", "parse">>
          /\ transcode_rc = <<>>
          /\ fileExists
    /\ exit = <<EXIT_SKIP>> => TooFew

\* C3 as amended: the same, but status 2 is also the status of a usage error
\* of the command line, which ends the script before any step has run; it
\* ends with status 2 in no third situation.
C3_ExitTwoTooFewOrUsage ==
    /\ TooFew =>
          /\ pc = "done"
          /\ exit = <<EXIT_SKIP>>
          /\ exit # <<EXIT_TOOL>>
          /\ filter = "absent"
          /\ playlist = <<>>
          /\ trace = <<"decimate", "parse">>
          /\ transcode_rc = <<>>
          /\ fileExists
    /\ exit = <<EXIT_SKIP>> => (TooFew \/ UsageError)
    /\ UsageError => exit = <<EXIT_USAGE>> /\ fileExists

\* One interval was found where --skip 2 asks for two.
C3_Witness ==
    /\ exit = <<EXIT_SKIP>>
    /\ cargs.skip = <<2>>
    /\ Len(frames_to_keep) = 1
    /\ SkipChecked

\* ---------------------------------------------------------------------- C6
\* C6 as stated: with --keep the original is never removed; without it, it is
\* removed only after the transcode invocation returned 0 and without
\* --debug; on a run ending with status 2, status 3 or an exception the
\* original still exists.
C6_OriginalKeptOnAnyFailure ==
    /\ cargs.keep => fileExists
    /\ ~fileExists => (transcode_rc = <<0>> /\ ~cargs.debug /\ ~cargs.keep)
    /\ exit \in {<<EXIT_SKIP>>, <<EXIT_TOOL>>, <<EXIT_EXCEPTION>>} => fileExists

\* C6 as amended: the same, except that the exception of the run's last
\* statement, rmtree(tempdir), comes after the original was removed.
C6_OriginalKeptUnlessRmtreeRaises ==
    /\ cargs.keep => fileExists
    /\ ~fileExists => (transcode_rc = <<0>> /\ ~cargs.debug /\ ~cargs.keep)
    /\ exit \in {<<EXIT_SKIP>>, <<EXIT_TOOL>>} => fileExists
    /\ (exit = <<EXIT_EXCEPTION>> /\ raisedAt # "rmtree") => fileExists
    /\ (exit = <<EXIT_EXCEPTION>> /\ raisedAt = "rmtree") => (fileExists <=> cargs.keep)

\* A successful run without --keep: the original is gone.
C6_Witness ==
    /\ pc = "done"
    /\ exit = <<EXIT_OK>>
    /\ ~fileExists
    /\ tempdir = "removed"

\* ---------------------------------------------------------------------- C7
\* C7 as stated: with --debug a run whose transcode succeeded ends with
\* status 0 and with the original and the temporary directory in place,
\* --keep or not; without --debug the temporary directory is removed exactly
\* on the runs whose transcode invocation succeeded.
C7_TempdirRemovedIffTranscodeOk ==
    /\ cargs.debug => (fileExists /\ tempdir # "removed")
    /\ (cargs.debug /\ transcode_rc = <<0>> /\ pc = "done") =>
          (exit = <<EXIT_OK>> /\ tempdir = "present" /\ filter = "closed")
    /\ (~cargs.debug /\ pc = "done") =>
          (tempdir = "removed" <=> transcode_rc = <<0>>)

\* C7 as amended: without --debug the temporary directory is removed exactly
\* on the runs whose transcode invocation succeeded and on which neither
\* os.remove (run without --keep) nor rmtree raised.
C7_TempdirRemovedIffCleanupRan ==
    /\ cargs.debug => (fileExists /\ tempdir # "removed")
    /\ (cargs.debug /\ transcode_rc = <<0>> /\ pc = "done") =>
          (exit = <<EXIT_OK>> /\ tempdir = "present" /\ filter = "closed")
    /\ (~cargs.debug /\ pc = "done") =>
          (tempdir = "removed" <=> (transcode_rc = <<0>> /\ raisedAt = ""))
    /\ (raisedAt = "os.remove" => ~cargs.keep)

\* A successful run with --debug and without --keep.
C7_Witness ==
    /\ pc = "done"
    /\ cargs.debug
    /\ ~cargs.keep
    /\ transcode_rc = <<0>>
    /\ exit = <<EXIT_OK>>

\* ---------------------------------------------------------------------- C4
\* C4: after every line read, to_keep holds one interval per maximal run of
\* keep lines of the lines read so far, in log order, lines that do not match
\* re_decimate ignored: from the run's first keep line to the first drop line
\* after the run; and what get_frames_to_keep returns is that list for the
\* whole log.
C4_OneIntervalPerRun ==
    /\ Parsing => to_keep = Runs(LinesRead)
    /\ Parsed => frames_to_keep = Runs(log)

\* Two runs, each of two keep lines or with an ignored line in it, both closed.
C4_Witness ==
    /\ pc = "skip_check"
    /\ log = <<LineKeepA, LineDropA, LineKeepB, LineDropB>>
    /\ frames_to_keep = << <<"0.5", "1.25">>, <<"2", "4.75">> >>

\* ---------------------------------------------------------------------- C8
\* A line read so far that is no keep/drop line and matches the pattern.
SeenAudio(lines, kind) ==
    \E i \in 1..Len(lines) : ~IsKeepDrop(lines[i]) /\ audio_fullmatch(lines[i], kind)

\* C8: each audio flag is set exactly when a line read so far is an input
\* (output) audio stream summary, so it stays set and keep/drop lines do not
\* change it; audio is reported exactly when the log has a line of each kind,
\* in either order.
C8_AudioIffBothSummaries ==
    /\ Parsing =>
          /\ has_audio_in <=> SeenAudio(LinesRead, "in_stream")
          /\ has_audio_out <=> SeenAudio(LinesRead, "out_stream")
    /\ Parsed =>
          (has_audio <=> (SeenAudio(log, "in_stream") /\ SeenAudio(log, "out_stream")))

\* The output summary comes first, keep/drop lines and the input summary after it.
C8_Witness ==
    /\ pc = "skip_check"
    /\ log = <<LineAudioOut, LineKeepA, LineAudioIn, LineDropA>>
    /\ has_audio

\* ---------------------------------------------------------------------- C9
\* C9: after every line read, dropping is false exactly when to_keep is not
\* empty and its last interval has no end; every interval but the last has an
\* end; at the end of the log the last interval is open exactly when the
\* log's last keep/drop line is a keep line, and then the playlist's last
\* entry has no outpoint.
C9_DroppingIffLastOpen ==
    /\ Parsing =>
          /\ ~dropping <=> (to_keep # <<>> /\ Last(to_keep)[2] = None)
          /\ \A i \in 1..(Len(to_keep) - 1) : to_keep[i][2] # None
    /\ Parsed =>
          /\ frames_to_keep # <<>> =>
                (Last(frames_to_keep)[2] = None <=> EndsWithKeep(log))
          /\ EndsWithKeep(log) => frames_to_keep # <<>>
    /\ (filter = "closed" /\ frames_to_keep # <<>>) =>
          (Last(playlist).d # "outpoint" <=> EndsWithKeep(log))

\* A closed interval, then one the end of the log leaves open, written out.
C9_Witness ==
    /\ filter = "closed"
    /\ Len(frames_to_keep) = 2
    /\ Last(frames_to_keep)[2] = None
    /\ frames_to_keep[1][2] # None

\* ---------------------------------------------------------------------- C5
\* The file a playlist's "file" argument names: the concat demuxer takes a
\* relative path from the playlist's directory.
PlaylistFile(a) == IF a[1] = "/" THEN a ELSE tempdir_path \o a

\* The file the command line names.
InputFile == IF cargs.filepath[1] = "/" THEN cargs.filepath ELSE cwd \o cargs.filepath

\* The playlist's lines with directive d between positions lo and hi.
Directives(d, lo, hi) == {i \in lo..hi : playlist[i].d = d}

\* C5: the closed playlist is the header and then one entry per interval, in
\* the list's order: a "file" line naming the input file, one "inpoint" line
\* with the interval's start and, exactly when the interval has an end, one
\* "outpoint" line with it; there is no other entry and no other directive.
C5_PlaylistIsIntervals ==
    filter = "closed" =>
      LET n == Len(playlist)
          files == Directives("file", 1, n)
          from(k) == Nth(files, k)
          to(k) == IF k = Cardinality(files) THEN n ELSE Nth(files, k + 1) - 1
      IN /\ playlist[1] = Header
         /\ Cardinality(files) = Len(frames_to_keep)
         /\ \A i \in 2..n : playlist[i].d \in {"", "file", "inpoint", "outpoint"}
         /\ \A i \in 2..n : playlist[i].d \in {"inpoint", "outpoint"} =>
               \E j \in files : j < i
         /\ \A k \in 1..Len(frames_to_keep) :
               LET ins == Directives("inpoint", from(k), to(k))
                   outs == Directives("outpoint", from(k), to(k))
               IN /\ PlaylistFile(playlist[from(k)].a) = InputFile
                  /\ Cardinality(ins) = 1
                  /\ \A i \in ins : playlist[i].a = <<frames_to_keep[k][1]>>
                  /\ Cardinality(outs) = IF frames_to_keep[k][2] = None THEN 0 ELSE 1
                  /\ \A i \in outs : playlist[i].a = <<frames_to_keep[k][2]>>

\* A playlist of a closed and an open interval for a relative input path.
C5_Witness ==
    /\ filter = "closed"
    /\ cargs.filepath = <<"clip.mkv">>
    /\ frames_to_keep = << <<"2", "1.25">>, <<"0.5", None>> >>

====
